---- MODULE Spec2Model ----
(***************************************************************************)
(* bulk_extractor Phase 1: the dispatch loop of                            *)
(* BulkExtractor_Phase1::send_data_to_workers, the allocator retry of      *)
(* get_sbuf, the rolling SHA-1, the progress counter and run(), together   *)
(* with the worker pool that executes the work units, and scan_gzip, which *)
(* hands the gzip streams it finds in a page back to the pool.             *)
(***************************************************************************)
EXTENDS Integers, Sequences, FiniteSets, TLC

(***************************************************************************)
(* Bounds of the model.                                                    *)
(***************************************************************************)
\* bytes in one page of the image
PageSize == 2
\* largest image, in pages, of a sequential run
MaxPages == 3
\* largest image, in pages, of a sampling run
MaxSamplingPages == 6
\* largest configured config.max_bad_alloc_errors
MaxBadAlloc == 2
\* config.num_threads
NumThreads == 2
\* capacity of the pool's queue
QueueCapacity == 2
\* config.opt_notify_rate
NotifyRate == 1
\* bytes of margin that follow the logical page in a leaf page buffer
MarginSize == 4
\* largest number of derived pages in a run
MaxDerived == 2
\* gzip_max_uncompr_size: the largest zs.total_out
gzip_max_uncompr_size == 6

\* scan_gzip stops looking for a signature 4 bytes before the end of the buffer
scan_tail == 4

\* largest block number an iterator is ever placed at
MaxBlock == IF MaxPages > MaxSamplingPages THEN MaxPages ELSE MaxSamplingPages

VARIABLES
    config,            \* BulkExtractor_Phase1::Config
    image_size,        \* p.image_size(), in bytes
    pc,                \* position of the thread that executes run()
    it,                \* image_process::iterator: raw_offset, page_number
    blocks_to_sample,  \* blocklist_t (an ordered std::set of block numbers)
    si,                \* number of elements of blocks_to_sample already passed by si
    retry_count,       \* get_sbuf's loop counter
    sbufp,             \* the sbuf returned by get_sbuf, while tp->push has not returned
    seen_page_ids,     \* set of position strings
    sha1g,             \* TRUE while the sha1 generator exists (sha1g != 0)
    sha1_bytes,        \* image bytes (by index) fed to sha1g->update so far
    sha1_next,         \* next byte to hash
    total_bytes,
    notify_ctr,
    progress_lines,    \* number of progress lines printed by notify_user
    xreport,           \* the calls made on the XML report, in order
    tp_queue,          \* the pool's queue: units, n > 0 for submitted[n], -k for derived[k]
    tp_workers,        \* per worker: the unit it took from the queue, 0 when free
    submitted,         \* the sbufs handed to tp->push, in order
    process_count,     \* per submitted unit: completed work_unit::process() calls
    alloc_calls,       \* per page number: calls of it.sbuf_alloc() at that position
    blocked_pushes,    \* number of tp->push calls that found the queue full and waited
    plans_built,       \* number of returns of make_sorted_random_blocklist
    derived,           \* the pages scan_gzip has passed to sp.recurse, in order
    frames             \* per worker: the stack of scanner calls it is in, innermost last

vars == << config, image_size, pc, it, blocks_to_sample, si, retry_count, sbufp,
           seen_page_ids, sha1g, sha1_bytes, sha1_next, total_bytes, notify_ctr,
           progress_lines, xreport, tp_queue, tp_workers, submitted, process_count,
           alloc_calls, blocked_pushes, plans_built, derived, frames >>

(***************************************************************************)
(* Positions (pos0_t) and page buffers (sbuf_t).                           *)
(***************************************************************************)
\* a position: the path, here the sequence of its dash-separated segments, and the offset
pos0_t(path, offset) == [path |-> path, offset |-> offset]

RECURSIVE PathStr(_)
\* the segments of a path, each followed by a dash
PathStr(path) ==
    IF path = << >> THEN "" ELSE Head(path) \o "-" \o PathStr(Tail(path))

\* pos0_t::str(): the path, a dash, then the offset; the bare offset for a leaf
pos0_str(pos0) == PathStr(pos0.path) \o ToString(pos0.offset)

\* operator+(pos0_t, int64_t): the same path, the offset moved by delta
pos0_add(pos0, delta) == pos0_t(pos0.path, pos0.offset + delta)

\* operator+(pos0_t, string): the offset becomes a segment of the path, followed by
\* subdir, and the new offset is 0
pos0_subdir(pos0, subdir) ==
    pos0_t(pos0.path \o << ToString(pos0.offset), subdir >>, 0)

NoSbuf == [pos0 |-> pos0_t(<< >>, 0), bufsize |-> 0, pagesize |-> 0, valid |-> FALSE]

Min(a, b) == IF a < b THEN a ELSE b

\* number of pages of an image of sz bytes (the last page may be short)
PagesOf(sz) == (sz + PageSize - 1) \div PageSize

\* image_process::iterator
begin == [raw_offset |-> 0, page_number |-> 0]
max_blocks(sz) == PagesOf(sz)
seek_block(i, block) == [raw_offset |-> block * PageSize, page_number |-> block]
set_raw_offset(i, off) == [raw_offset |-> off, page_number |-> off \div PageSize]
incr(i) == [raw_offset |-> i.raw_offset + PageSize, page_number |-> i.page_number + 1]
at_end(i, sz) == i.raw_offset >= sz
get_pos0(i) == pos0_t(<< >>, i.raw_offset)

\* the sbuf it.sbuf_alloc() returns: the page at the iterator followed by its margin,
\* both cut short at the end of the image
sbuf_alloc(i, sz) ==
    [pos0 |-> get_pos0(i),
     bufsize |-> IF i.raw_offset >= sz THEN 0
                 ELSE Min(PageSize + MarginSize, sz - i.raw_offset),
     pagesize |-> IF i.raw_offset >= sz THEN 0 ELSE Min(PageSize, sz - i.raw_offset),
     valid |-> TRUE]

\* the image bytes of the logical page of an sbuf, as byte indices
PageBytes(sbuf) == [k \in 1..sbuf.pagesize |-> sbuf.pos0.offset + k - 1]

(***************************************************************************)
(* Configuration.                                                          *)
(***************************************************************************)
OffsetStarts == {0, PageSize}
OffsetEnds == {0, 2 * PageSize}
PageStarts == {0, 1}
\* sampling fractions in hundredths: 0 is no sampling, above 20 is refused
SamplingFractions == {0, 19, 25}
\* config.sampling_passes: 1 unless set_sampling_parameters was given another count
SamplingPasses == {1, 2}

\* set_sampling_parameters does not throw: not (f <= 0 or f >= 1), and passes is not 0
sampling_params_ok(frac, passes) == ~(frac <= 0 \/ frac >= 100) /\ passes # 0

ConfigValues ==
    [max_bad_alloc_errors : 0..MaxBadAlloc,
     opt_offset_start : OffsetStarts,
     opt_offset_end : OffsetEnds,
     opt_page_start : PageStarts,
     sampling_fraction : SamplingFractions,
     sampling_passes : SamplingPasses,
     opt_quiet : BOOLEAN,
     opt_notify_rate : {NotifyRate},
     num_threads : {NumThreads}]

\* the configurations run() is called with: without sampling, or with the parameters
\* set_sampling_parameters has accepted
Configs ==
    {c \in ConfigValues :
        IF c.sampling_fraction = 0 THEN c.sampling_passes = 1
        ELSE sampling_params_ok(c.sampling_fraction, c.sampling_passes)}

sampling == config.sampling_fraction > 0

ImageSizes(c) ==
    IF c.sampling_fraction > 0
    THEN {n * PageSize : n \in 1..MaxSamplingPages}
    ELSE 1..(MaxPages * PageSize)

(***************************************************************************)
(* The XML report: one record per call.                                    *)
(***************************************************************************)
xml_push(tag) == [op |-> "push", tag |-> tag, name |-> "", pos0 |-> "", retry_count |-> -1]
xml_exception(name, pos0, rc) ==
    [op |-> "xmlout", tag |-> "debug:exception", name |-> name,
     pos0 |-> pos0_str(pos0), retry_count |-> rc]

BadAllocName == "bad_alloc"
ReadErrorName == "read_error"
TooManyName == "too many sbuf allocation errors"

\* the state when run() is called; the rolling hash is enabled (sha1g non-null, sha1_next 0)
Constructed ==
    /\ pc = "run"
    /\ it = begin
    /\ blocks_to_sample = {}
    /\ si = 0
    /\ retry_count = 0
    /\ sbufp = NoSbuf
    /\ seen_page_ids = {}
    /\ sha1g = TRUE
    /\ sha1_bytes = << >>
    /\ sha1_next = 0
    /\ total_bytes = 0
    /\ notify_ctr = 0
    /\ progress_lines = 0
    /\ xreport = << >>
    /\ tp_queue = << >>
    /\ tp_workers = [w \in 1..NumThreads |-> 0]
    /\ submitted = << >>
    /\ process_count = << >>
    /\ alloc_calls = [b \in 0..MaxBlock |-> 0]
    /\ blocked_pushes = 0
    /\ plans_built = 0
    /\ derived = << >>
    /\ frames = [w \in 1..NumThreads |-> << >>]

Init ==
    /\ config \in Configs
    /\ image_size \in ImageSizes(config)
    /\ Constructed

(***************************************************************************)
(* run() up to the dispatch loop, and make_sorted_random_blocklist.        *)
(***************************************************************************)
\* run() creates the pool; send_data_to_workers opens the runtime element, places the
\* iterator and, when sampling, enters make_sorted_random_blocklist
StartDispatch ==
    /\ pc = "run"
    /\ xreport' = Append(xreport, xml_push("runtime"))
    /\ it' = IF config.opt_offset_start # 0
             THEN set_raw_offset(begin, config.opt_offset_start)
             ELSE begin
    /\ pc' = IF sampling THEN "sample" ELSE "loop"
    /\ UNCHANGED << plans_built, derived, frames, blocked_pushes,
                    config, image_size, blocks_to_sample, si, retry_count, sbufp,
                    seen_page_ids, sha1g, sha1_bytes, sha1_next, total_bytes, notify_ctr,
                    progress_lines, tp_queue, tp_workers, submitted, process_count,
                    alloc_calls >>

\* frac > 0.2
frac_refused(frac) == frac > 20

\* blocklist->size() < max_blocks * frac
need_more_blocks(blocklist, maxblocks, frac) ==
    Cardinality(blocklist) * 100 < maxblocks * frac

\* the values std::uniform_int_distribution<uint64_t>(0, max_blocks) draws from
distribution(maxblocks) == 0..maxblocks

\* make_sorted_random_blocklist throws: the exception leaves send_data_to_workers and run()
SampleRefuse ==
    /\ pc = "sample"
    /\ frac_refused(config.sampling_fraction)
    /\ pc' = "abort"
    /\ UNCHANGED << plans_built, derived, frames, blocked_pushes,
                    config, image_size, it, blocks_to_sample, si, retry_count, sbufp,
                    seen_page_ids, sha1g, sha1_bytes, sha1_next, total_bytes, notify_ctr,
                    progress_lines, xreport, tp_queue, tp_workers, submitted,
                    process_count, alloc_calls >>

\* one turn of the while loop: a drawn block is inserted (a no-op when already present)
SampleDraw ==
    /\ pc = "sample"
    /\ ~frac_refused(config.sampling_fraction)
    /\ need_more_blocks(blocks_to_sample, max_blocks(image_size), config.sampling_fraction)
    /\ \E b \in distribution(max_blocks(image_size)) :
           blocks_to_sample' = blocks_to_sample \cup {b}
    /\ UNCHANGED << plans_built, derived, frames, blocked_pushes,
                    config, image_size, pc, it, si, retry_count, sbufp,
                    seen_page_ids, sha1g, sha1_bytes, sha1_next, total_bytes, notify_ctr,
                    progress_lines, xreport, tp_queue, tp_workers, submitted,
                    process_count, alloc_calls >>

\* the while loop ends; si = blocks_to_sample.begin()
SampleDone ==
    /\ pc = "sample"
    /\ ~frac_refused(config.sampling_fraction)
    /\ ~need_more_blocks(blocks_to_sample, max_blocks(image_size), config.sampling_fraction)
    /\ si' = 0
    /\ plans_built' = plans_built + 1
    /\ pc' = "loop"
    /\ UNCHANGED << derived, frames, blocked_pushes,
                    config, image_size, it, blocks_to_sample, retry_count, sbufp,
                    seen_page_ids, sha1g, sha1_bytes, sha1_next, total_bytes, notify_ctr,
                    progress_lines, xreport, tp_queue, tp_workers, submitted,
                    process_count, alloc_calls >>

(***************************************************************************)
(* The dispatch loop of send_data_to_workers.                              *)
(***************************************************************************)
RECURSIVE NthSmallest(_, _)
\* the n-th element of an ordered std::set, counting from 1
NthSmallest(S, n) ==
    LET m == CHOOSE x \in S : \A y \in S : x <= y
    IN  IF n = 1 THEN m ELSE NthSmallest(S \ {m}, n - 1)

\* the loop is over: si == blocks_to_sample.end(), or it == p.end()
loop_at_end ==
    IF sampling THEN si = Cardinality(blocks_to_sample) ELSE at_end(it, image_size)

\* the iterator the loop body works with: after it.seek_block(*si) when sampling
loop_it ==
    IF sampling THEN seek_block(it, NthSmallest(blocks_to_sample, si + 1)) ELSE it

\* config.opt_offset_end!=0 && config.opt_offset_end <= it.raw_offset
passed_offset_end(c, i) == c.opt_offset_end # 0 /\ c.opt_offset_end <= i.raw_offset

\* config.opt_page_start<=it.page_number && config.opt_offset_start<=it.raw_offset
passes_gates(c, i) == c.opt_page_start <= i.page_number /\ c.opt_offset_start <= i.raw_offset

\* seen_page_ids.find(it.get_pos0().str()) == seen_page_ids.end()
not_seen(seen, i) == pos0_str(get_pos0(i)) \notin seen

\* variant of advance_it: the iterator is left where it is
advance_it_stuck(i) == i

\* the end of the loop body: ++si when sampling, ++it otherwise
advance_it(i) == IF sampling THEN i ELSE incr(i)
advance_si(s) == IF sampling THEN s + 1 ELSE s

\* either break of the loop; send_data_to_workers returns and run() calls tp->join()
LoopBreak ==
    /\ pc = "loop"
    /\ \/ /\ loop_at_end
          /\ it' = it
       \/ /\ ~loop_at_end
          /\ passed_offset_end(config, loop_it)
          /\ it' = loop_it
    /\ pc' = "join"
    /\ UNCHANGED << plans_built, derived, frames, blocked_pushes,
                    config, image_size, blocks_to_sample, si, retry_count, sbufp,
                    seen_page_ids, sha1g, sha1_bytes, sha1_next, total_bytes, notify_ctr,
                    progress_lines, xreport, tp_queue, tp_workers, submitted,
                    process_count, alloc_calls >>

\* the page is before page_start or offset_start, or was seen: nothing is done with it
LoopSkip ==
    /\ pc = "loop"
    /\ ~loop_at_end
    /\ ~passed_offset_end(config, loop_it)
    /\ ~(passes_gates(config, loop_it) /\ not_seen(seen_page_ids, loop_it))
    /\ it' = advance_it(loop_it)
    /\ si' = advance_si(si)
    /\ UNCHANGED << plans_built, derived, frames, blocked_pushes,
                    config, image_size, pc, blocks_to_sample, retry_count, sbufp,
                    seen_page_ids, sha1g, sha1_bytes, sha1_next, total_bytes, notify_ctr,
                    progress_lines, xreport, tp_queue, tp_workers, submitted,
                    process_count, alloc_calls >>

\* the page passes: the try block is entered and get_sbuf(it) is called
LoopGetSbuf ==
    /\ pc = "loop"
    /\ ~loop_at_end
    /\ ~passed_offset_end(config, loop_it)
    /\ passes_gates(config, loop_it)
    /\ not_seen(seen_page_ids, loop_it)
    /\ it' = loop_it
    /\ retry_count' = 0
    /\ pc' = "get_sbuf"
    /\ UNCHANGED << plans_built, derived, frames, blocked_pushes,
                    config, image_size, blocks_to_sample, si, sbufp,
                    seen_page_ids, sha1g, sha1_bytes, sha1_next, total_bytes, notify_ctr,
                    progress_lines, xreport, tp_queue, tp_workers, submitted,
                    process_count, alloc_calls >>

(***************************************************************************)
(* get_sbuf: the allocator retry, one it.sbuf_alloc() call per action.     *)
(***************************************************************************)
\* variant of retry_limit: two more turns of the for loop
retry_limit_two_more(c) == c.max_bad_alloc_errors + 2

\* the for loop runs while retry_count < config.max_bad_alloc_errors
retry_limit(c) == c.max_bad_alloc_errors

\* sbuf.pos0.offset==sha1_next
sha1_follows(sbuf, next) == sbuf.pos0.offset = next

\* sha1g->update(sbuf.buf, sbuf.pagesize)
sha1_update(bytes, sbuf) == bytes \o PageBytes(sbuf)

\* variant of sha1_advance: a whole page is counted, also for a short last page
sha1_advance_whole_page(next, sbuf) == next + PageSize

\* sha1_next += sbuf.pagesize
sha1_advance(next, sbuf) == next + sbuf.pagesize

\* variant of catch_exception: the exception is reported and the loop is left
catch_exception_break(what) ==
    /\ xreport' = Append(xreport, xml_exception(what, get_pos0(it), -1))
    /\ it' = it
    /\ si' = si
    /\ pc' = "join"
    /\ UNCHANGED << sbufp, sha1g, sha1_bytes, sha1_next, total_bytes, notify_ctr,
                    progress_lines, tp_queue, submitted, process_count >>

\* the catch block of the dispatch loop, then the end of the loop body
catch_exception(what) ==
    /\ xreport' = Append(xreport, xml_exception(what, get_pos0(it), -1))
    /\ it' = advance_it(it)
    /\ si' = advance_si(si)
    /\ pc' = "loop"
    /\ UNCHANGED << sbufp, sha1g, sha1_bytes, sha1_next, total_bytes, notify_ctr,
                    progress_lines, tp_queue, submitted, process_count >>

\* it.sbuf_alloc() returns: get_sbuf returns the sbuf, the hash and total_bytes are
\* updated, and tp->push is entered
GetSbufReturn ==
    /\ pc = "get_sbuf"
    /\ retry_count < retry_limit(config)
    /\ alloc_calls' = [alloc_calls EXCEPT ![it.page_number] = @ + 1]
    /\ LET sbuf == sbuf_alloc(it, image_size)
       IN  /\ sbufp' = sbuf
           /\ IF sha1g /\ sha1_follows(sbuf, sha1_next)
              THEN /\ sha1_bytes' = sha1_update(sha1_bytes, sbuf)
                   /\ sha1_next' = sha1_advance(sha1_next, sbuf)
                   /\ sha1g' = sha1g
              ELSE /\ sha1g' = FALSE
                   /\ sha1_bytes' = << >>
                   /\ sha1_next' = sha1_next
           /\ total_bytes' = total_bytes + sbuf.pagesize
    /\ pc' = "push"
    /\ UNCHANGED << plans_built, derived, frames, blocked_pushes,
                    config, image_size, it, blocks_to_sample, si, retry_count,
                    seen_page_ids, notify_ctr, progress_lines, xreport, tp_queue,
                    tp_workers, submitted, process_count >>

\* it.sbuf_alloc() throws std::bad_alloc: logged with retry_count, sleep, next turn
GetSbufBadAlloc ==
    /\ pc = "get_sbuf"
    /\ retry_count < retry_limit(config)
    /\ alloc_calls' = [alloc_calls EXCEPT ![it.page_number] = @ + 1]
    /\ xreport' = Append(xreport, xml_exception(BadAllocName, get_pos0(it), retry_count))
    /\ retry_count' = retry_count + 1
    /\ UNCHANGED << plans_built, derived, frames, blocked_pushes,
                    config, image_size, pc, it, blocks_to_sample, si, sbufp,
                    seen_page_ids, sha1g, sha1_bytes, sha1_next, total_bytes, notify_ctr,
                    progress_lines, tp_queue, tp_workers, submitted, process_count >>

\* it.sbuf_alloc() throws another std::exception: it leaves get_sbuf and is caught by
\* the dispatch loop
GetSbufReadError ==
    /\ pc = "get_sbuf"
    /\ retry_count < retry_limit(config)
    /\ alloc_calls' = [alloc_calls EXCEPT ![it.page_number] = @ + 1]
    /\ catch_exception(ReadErrorName)
    /\ UNCHANGED << plans_built, derived, frames, blocked_pushes,
                    config, image_size, blocks_to_sample, retry_count,
                    seen_page_ids, tp_workers >>

\* the for loop is over: get_sbuf throws std::runtime_error, caught by the dispatch loop
GetSbufGiveUp ==
    /\ pc = "get_sbuf"
    /\ ~(retry_count < retry_limit(config))
    /\ catch_exception(TooManyName)
    /\ UNCHANGED << plans_built, derived, frames, blocked_pushes,
                    config, image_size, blocks_to_sample, retry_count,
                    seen_page_ids, tp_workers, alloc_calls >>

(***************************************************************************)
(* tp->push, notify_user and the worker pool.                              *)
(***************************************************************************)
\* notify_ctr++ >= config.opt_notify_rate
notify_due(ctr, c) == ctr >= c.opt_notify_rate

\* notify_ctr after notify_user: incremented, and reset when a line was printed
notify_user_ctr(ctr, c) == IF notify_due(ctr, c) THEN 0 ELSE ctr + 1

\* the queue has room: tp->push blocks otherwise
queue_has_room(q) == Len(q) < QueueCapacity

\* tp->push finds the queue full: the producer waits for room
PushBlock ==
    /\ pc = "push"
    /\ ~queue_has_room(tp_queue)
    /\ pc' = "push_blocked"
    /\ blocked_pushes' = blocked_pushes + 1
    /\ UNCHANGED << plans_built, derived, frames,
                    config, image_size, it, blocks_to_sample, si, retry_count, sbufp,
                    seen_page_ids, sha1g, sha1_bytes, sha1_next, total_bytes, notify_ctr,
                    progress_lines, xreport, tp_queue, tp_workers, submitted,
                    process_count, alloc_calls >>

\* tp->push returns with the work unit queued, then notify_user and the end of the body
Push ==
    /\ pc \in {"push", "push_blocked"}
    /\ queue_has_room(tp_queue)
    /\ submitted' = Append(submitted, sbufp)
    /\ process_count' = Append(process_count, 0)
    /\ tp_queue' = Append(tp_queue, Len(submitted) + 1)
    /\ sbufp' = NoSbuf
    /\ IF config.opt_quiet = FALSE
       THEN /\ progress_lines' = IF notify_due(notify_ctr, config)
                                 THEN progress_lines + 1 ELSE progress_lines
            /\ notify_ctr' = notify_user_ctr(notify_ctr, config)
       ELSE UNCHANGED << progress_lines, notify_ctr >>
    /\ it' = advance_it(it)
    /\ si' = advance_si(si)
    /\ pc' = "loop"
    /\ UNCHANGED << plans_built, derived, frames, blocked_pushes,
                    config, image_size, blocks_to_sample, retry_count, seen_page_ids,
                    sha1g, sha1_bytes, sha1_next, total_bytes, xreport, tp_workers,
                    alloc_calls >>

\* the call of a scanner on a unit: scan_gzip's cc (as an offset into the buffer), where
\* the call is, and the derived page whose decompress buffer it holds (0: none)
frame(u) == [unit |-> u, cc |-> 0, phase |-> "scan", child |-> 0]

\* a free worker takes the unit at the head of the queue and starts its scanners
WorkerTake(w) ==
    /\ pc # "crashed"
    /\ tp_workers[w] = 0
    /\ tp_queue # << >>
    /\ tp_workers' = [tp_workers EXCEPT ![w] = Head(tp_queue)]
    /\ frames' = [frames EXCEPT ![w] = << frame(Head(tp_queue)) >>]
    /\ tp_queue' = Tail(tp_queue)
    /\ UNCHANGED << plans_built, derived, blocked_pushes,
                    config, image_size, pc, it, blocks_to_sample, si, retry_count, sbufp,
                    seen_page_ids, sha1g, sha1_bytes, sha1_next, total_bytes, notify_ctr,
                    progress_lines, xreport, submitted, process_count, alloc_calls >>

\* variant of work_unit_process: the scanners are not run
work_unit_process_skipped(counts, u) == counts

\* work_unit::process(): ss.process_sbuf(sbuf) has run once more for unit u
work_unit_process(counts, u) == [counts EXCEPT ![u] = @ + 1]

\* the lambda [wu]{ wu.process(); } returns and the worker is free again
WorkerFinish(w) ==
    /\ pc # "crashed"
    /\ tp_workers[w] > 0
    /\ Len(frames[w]) = 1
    /\ frames[w][1].phase = "scan"
    /\ process_count' = work_unit_process(process_count, tp_workers[w])
    /\ tp_workers' = [tp_workers EXCEPT ![w] = 0]
    /\ frames' = [frames EXCEPT ![w] = << >>]
    /\ UNCHANGED << plans_built, derived, blocked_pushes,
                    config, image_size, pc, it, blocks_to_sample, si, retry_count, sbufp,
                    seen_page_ids, sha1g, sha1_bytes, sha1_next, total_bytes, notify_ctr,
                    progress_lines, xreport, tp_queue, submitted, alloc_calls >>

\* tp->join() returns: nothing is queued and no worker is busy
pool_idle == tp_queue = << >> /\ \A w \in 1..NumThreads : tp_workers[w] = 0

\* run() after send_data_to_workers: tp->join() returns and run() returns
Join ==
    /\ pc = "join"
    /\ pool_idle
    /\ pc' = "done"
    /\ UNCHANGED << plans_built, derived, frames, blocked_pushes,
                    config, image_size, it, blocks_to_sample, si, retry_count, sbufp,
                    seen_page_ids, sha1g, sha1_bytes, sha1_next, total_bytes, notify_ctr,
                    progress_lines, xreport, tp_queue, tp_workers, submitted,
                    process_count, alloc_calls >>

(***************************************************************************)
(* scan_gzip in PHASE_SCAN and sp.recurse: a worker that processes a unit  *)
(* runs scan_gzip over its page; every gzip stream found there becomes a   *)
(* derived page that is handed to sp.recurse.                              *)
(***************************************************************************)
\* the sbuf of a unit: a submitted leaf page, or (negative numbers) a derived page
unit_sbuf(u) == IF u > 0 THEN submitted[u] ELSE derived[-u].sbuf

\* the offsets the for loop looks at:
\* cc < sbuf.buf+sbuf.pagesize && cc < sbuf.buf+sbuf.bufsize-4
scan_offsets(sbuf) ==
    {pos \in 0..(sbuf.pagesize - 1) : pos < sbuf.bufsize - scan_tail}

\* zs.total_out of a stream that gave data: the smallest and the largest size
total_outs == {1, gzip_max_uncompr_size}

\* variant of pos0_gzip: the tag is appended to the position of the page
pos0_gzip_of_page(pos0, pos) == pos0_subdir(pos0, "GZIP")

\* (pos0 + pos) + "GZIP"
pos0_gzip(pos0, pos) == pos0_subdir(pos0_add(pos0, pos), "GZIP")

\* new sbuf_t(pos0_gzip, decompress.buf, zs.total_out, zs.total_out, 0, false)
nsbuf(pos0, pos, total_out) ==
    [pos0 |-> pos0_gzip(pos0, pos), bufsize |-> total_out, pagesize |-> total_out,
     valid |-> TRUE]

\* the innermost scanner call of worker w, and the stack with that call replaced
top(w) == frames[w][Len(frames[w])]
set_top(w, f) == [frames EXCEPT ![w] = [i \in 1..Len(frames[w]) |->
                                           IF i = Len(frames[w]) THEN f ELSE frames[w][i]]]

\* the variables of the dispatch loop, which the workers never touch
dispatch_vars == << config, image_size, pc, it, blocks_to_sample, si, retry_count, sbufp,
                    seen_page_ids, sha1g, sha1_bytes, sha1_next, total_bytes, notify_ctr,
                    progress_lines, xreport, submitted, alloc_calls, blocked_pushes,
                    plans_built >>

\* sp.recurse runs the child in the calling worker when the queue is saturated, and
\* queues it otherwise
recurse_inline(q) == ~queue_has_room(q)

\* the derived page of a signature found at offset pos whose inflate gave total_out bytes
\* into the decompress buffer
derived_page(u, pos, total_out) ==
    [sbuf |-> nsbuf(unit_sbuf(u).pos0, pos, total_out), parent |-> u, pos |-> pos,
     freed |-> FALSE, process_count |-> 0]

\* the signature is found at offset pos, nsbuf is built over the decompress buffer and
\* sp.recurse(nsbuf) is called; the queue has room: the child unit is queued and
\* recurse returns
GzipEnqueue(w) ==
    /\ pc # "crashed"
    /\ frames[w] # << >>
    /\ top(w).phase = "scan"
    /\ Len(derived) < MaxDerived
    /\ ~recurse_inline(tp_queue)
    /\ \E pos \in scan_offsets(unit_sbuf(top(w).unit)), total_out \in total_outs :
          /\ pos >= top(w).cc
          /\ derived' = Append(derived, derived_page(top(w).unit, pos, total_out))
          /\ frames' = set_top(w, [top(w) EXCEPT !.cc = pos, !.phase = "after",
                                                  !.child = Len(derived) + 1])
    /\ tp_queue' = Append(tp_queue, -(Len(derived) + 1))
    /\ UNCHANGED << dispatch_vars, tp_workers, process_count >>

\* the same with the queue saturated: the scanners are called on the child in this
\* worker, on top of the call that found it
GzipInline(w) ==
    /\ pc # "crashed"
    /\ frames[w] # << >>
    /\ top(w).phase = "scan"
    /\ Len(derived) < MaxDerived
    /\ recurse_inline(tp_queue)
    /\ \E pos \in scan_offsets(unit_sbuf(top(w).unit)), total_out \in total_outs :
          /\ pos >= top(w).cc
          /\ derived' = Append(derived, derived_page(top(w).unit, pos, total_out))
          /\ frames' = [frames EXCEPT ![w] =
                           Append([i \in 1..Len(@) |->
                                      IF i = Len(@)
                                      THEN [@[i] EXCEPT !.cc = pos, !.phase = "recurse",
                                                        !.child = Len(derived) + 1]
                                      ELSE @[i]],
                                  frame(-(Len(derived) + 1)))]
    /\ UNCHANGED << dispatch_vars, tp_queue, tp_workers, process_count >>

\* the scanners have finished a child that was run inline: sp.recurse returns, the
\* block of managed_malloc<u_char> decompress is left, which frees the buffer the
\* child was built over, and the for loop goes on with cc++
InlineReturn(w) ==
    /\ pc # "crashed"
    /\ Len(frames[w]) > 1
    /\ top(w).phase = "scan"
    /\ derived' = [derived EXCEPT ![-top(w).unit] =
                      [@ EXCEPT !.process_count = @ + 1, !.freed = TRUE]]
    /\ frames' = [frames EXCEPT ![w] =
                     [i \in 1..(Len(@) - 1) |->
                         IF i = Len(@) - 1
                         THEN [@[i] EXCEPT !.cc = @ + 1, !.phase = "scan", !.child = 0]
                         ELSE @[i]]]
    /\ UNCHANGED << dispatch_vars, tp_queue, tp_workers, process_count >>

\* after sp.recurse has queued the child: inflateEnd, and the block of
\* managed_malloc<u_char> decompress is left, which frees the buffer nsbuf was built
\* over; the for loop goes on with cc++
GzipRelease(w) ==
    /\ pc # "crashed"
    /\ frames[w] # << >>
    /\ top(w).phase = "after"
    /\ derived' = [derived EXCEPT ![top(w).child].freed = TRUE]
    /\ frames' = set_top(w, [top(w) EXCEPT !.cc = @ + 1, !.phase = "scan", !.child = 0])
    /\ UNCHANGED << dispatch_vars, tp_queue, tp_workers, process_count >>

\* the scanners have finished a child unit that was taken from the queue
DerivedFinish(w) ==
    /\ pc # "crashed"
    /\ tp_workers[w] < 0
    /\ Len(frames[w]) = 1
    /\ top(w).phase = "scan"
    /\ derived' = [derived EXCEPT ![-tp_workers[w]].process_count = @ + 1]
    /\ tp_workers' = [tp_workers EXCEPT ![w] = 0]
    /\ frames' = [frames EXCEPT ![w] = << >>]
    /\ UNCHANGED << dispatch_vars, tp_queue, process_count >>

\* scan_gzip reads cc[0..2] of a derived page whose buffer has been freed: the bytes
\* read are arbitrary (the other actions go on with any outcome of the scan), or the
\* read faults and the process is killed
ScanFreed(w) ==
    /\ pc # "crashed"
    /\ frames[w] # << >>
    /\ top(w).phase = "scan"
    /\ top(w).unit < 0
    /\ derived[-top(w).unit].freed
    /\ scan_offsets(unit_sbuf(top(w).unit)) # {}
    /\ pc' = "crashed"
    /\ UNCHANGED << config, image_size, it, blocks_to_sample, si, retry_count, sbufp,
                    seen_page_ids, sha1g, sha1_bytes, sha1_next, total_bytes, notify_ctr,
                    progress_lines, xreport, submitted, alloc_calls, blocked_pushes,
                    plans_built, tp_queue, tp_workers, process_count, derived, frames >>

Next ==
    \/ StartDispatch
    \/ SampleRefuse
    \/ SampleDraw
    \/ SampleDone
    \/ LoopBreak
    \/ LoopSkip
    \/ LoopGetSbuf
    \/ GetSbufReturn
    \/ GetSbufBadAlloc
    \/ GetSbufReadError
    \/ GetSbufGiveUp
    \/ PushBlock
    \/ Push
    \/ \E w \in 1..NumThreads : WorkerTake(w)
    \/ \E w \in 1..NumThreads : WorkerFinish(w)
    \/ Join

Spec == Init /\ [][Next]_vars

(***************************************************************************)
(* Runs with scan_gzip finding gzip streams: a sequential run from the     *)
(* second page on, in which it.sbuf_alloc() never throws, over an image    *)
(* whose second page has enough bytes behind it for scan_gzip to look at   *)
(* the page.  A tp->push that finds the queue full waits where it is.  A   *)
(* step is taken whenever one can be: the threads are scheduled by the     *)
(* operating system.                                                       *)
(***************************************************************************)
InitR ==
    /\ config \in Configs
    /\ config.max_bad_alloc_errors = 1
    /\ config.opt_offset_start = PageSize
    /\ config.opt_offset_end = 0
    /\ config.opt_page_start = 0
    /\ config.sampling_fraction = 0
    /\ config.opt_quiet
    /\ image_size = 2 * PageSize + scan_tail
    /\ Constructed

NextR ==
    \/ StartDispatch
    \/ LoopBreak
    \/ LoopGetSbuf
    \/ GetSbufReturn
    \/ Push
    \/ \E w \in 1..NumThreads : WorkerTake(w)
    \/ \E w \in 1..NumThreads : WorkerFinish(w)
    \/ \E w \in 1..NumThreads : GzipEnqueue(w)
    \/ \E w \in 1..NumThreads : GzipInline(w)
    \/ \E w \in 1..NumThreads : InlineReturn(w)
    \/ \E w \in 1..NumThreads : GzipRelease(w)
    \/ \E w \in 1..NumThreads : DerivedFinish(w)
    \/ \E w \in 1..NumThreads : ScanFreed(w)
    \/ Join

SpecR == InitR /\ [][NextR]_vars /\ WF_vars(NextR)

\* the runs of SpecR in which no read of a freed buffer faults
NextRNoFault == NextR /\ pc' # "crashed"
SpecRNoFault == InitR /\ [][NextRNoFault]_vars /\ WF_vars(NextRNoFault)

(***************************************************************************)
(* Vocabulary of the properties.                                           *)
(***************************************************************************)
\* send_data_to_workers has returned
DispatchOver == pc \in {"join", "done"}

\* the starting offsets of the submitted work units, in submission order
SubmittedOffsets == [i \in 1..Len(submitted) |-> submitted[i].pos0.offset]

\* the position string of the leaf page with block number b
BlockPosStr(b) == pos0_str(get_pos0(seek_block(begin, b)))

NoGates ==
    /\ config.opt_offset_start = 0
    /\ config.opt_offset_end = 0
    /\ config.opt_page_start = 0

\* no call of it.sbuf_alloc() has thrown
NoReadFailures ==
    \A i \in 1..Len(xreport) : xreport[i].name \notin {BadAllocName, ReadErrorName}

\* get_sbuf has thrown "too many sbuf allocation errors" at some position
GaveUp == \E i \in 1..Len(xreport) : xreport[i].name = TooManyName

\* a work unit for block b has been submitted
SubmittedBlock(b) == \E i \in 1..Len(submitted) : submitted[i].pos0 = get_pos0(seek_block(begin, b))

\* the dispatch loop's catch block has reported an exception for block b
ReportedBlock(b) ==
    \E i \in 1..Len(xreport) :
        /\ xreport[i].op = "xmlout"
        /\ xreport[i].tag = "debug:exception"
        /\ xreport[i].name \in {ReadErrorName, TooManyName}
        /\ xreport[i].pos0 = BlockPosStr(b)

\* the blocks the loop comes to when it is not cut short
Candidates ==
    IF sampling THEN blocks_to_sample
    ELSE {b \in 0..(PagesOf(image_size) - 1) : b * PageSize >= config.opt_offset_start}

\* the candidates that pass the page_start and offset_start gates, before offset_end
GatedCandidates ==
    {b \in Candidates :
        /\ passes_gates(config, seek_block(begin, b))
        /\ ~passed_offset_end(config, seek_block(begin, b))}

(***************************************************************************)
(* C1. Sequential coverage: a sequential run without gates and without     *)
(* read failures over an image of M pages submits exactly M work units,    *)
(* at offsets 0, pagesize, ..., (M-1)*pagesize, each once.                 *)
(* Stated as the claim; the code does not satisfy it.                      *)
(***************************************************************************)
Cex_C1_SequentialCoverage ==
    (DispatchOver /\ ~sampling /\ NoGates /\ NoReadFailures)
        => SubmittedOffsets = [i \in 1..PagesOf(image_size) |-> (i - 1) * PageSize]

(***************************************************************************)
(* C2. Dedup: no two submitted work units have equal Position strings.     *)
(***************************************************************************)
Thm_C2_Dedup ==
    \A i, j \in 1..Len(submitted) :
        i # j => pos0_str(submitted[i].pos0) # pos0_str(submitted[j].pos0)

Wit_C2_Dedup ==
    /\ sampling
    /\ config.opt_offset_start # 0
    /\ Len(submitted) >= 2

(***************************************************************************)
(* C3. No loss under backpressure: no unit is processed more than once,    *)
(* and when run() has returned from join() every submitted unit has been   *)
(* processed exactly once.                                                 *)
(***************************************************************************)
Thm_C3_NoLoss ==
    /\ Len(process_count) = Len(submitted)
    /\ \A u \in 1..Len(submitted) : process_count[u] <= 1
    /\ pc = "done" => \A u \in 1..Len(submitted) : process_count[u] = 1

Wit_C3_NoLoss ==
    /\ pc = "done"
    /\ Len(submitted) > QueueCapacity
    /\ blocked_pushes >= 1

(***************************************************************************)
(* C4. A page acquisition that fails with an exception other than          *)
(* bad_alloc does not stop dispatch: the step that records it writes a     *)
(* debug:exception with the page's position, submits nothing, leaves       *)
(* total_bytes and notify_ctr alone and goes on to the next candidate;     *)
(* and when dispatch is over every candidate page that passed the gates    *)
(* has either been submitted or been reported, never both.                 *)
(***************************************************************************)
ReadErrorStep ==
    /\ Len(xreport') = Len(xreport) + 1
    /\ xreport'[Len(xreport')].name = ReadErrorName

Thm_C4_ReadErrorContinues ==
    /\ [][ReadErrorStep =>
            /\ xreport'[Len(xreport')].op = "xmlout"
            /\ xreport'[Len(xreport')].tag = "debug:exception"
            /\ xreport'[Len(xreport')].pos0 = pos0_str(get_pos0(it))
            /\ submitted' = submitted
            /\ tp_queue' = tp_queue
            /\ total_bytes' = total_bytes
            /\ notify_ctr' = notify_ctr
            /\ pc' = "loop"
            /\ IF sampling THEN si' = si + 1 ELSE it' = incr(it)]_vars
    /\ [](DispatchOver =>
            \A b \in GatedCandidates : SubmittedBlock(b) # ReportedBlock(b))

Wit_C4_ReadErrorContinues ==
    /\ DispatchOver
    /\ \E b \in GatedCandidates :
          /\ \E i \in 1..Len(xreport) :
                xreport[i].name = ReadErrorName /\ xreport[i].pos0 = BlockPosStr(b)
          /\ \E c \in GatedCandidates : c > b /\ SubmittedBlock(c)

(***************************************************************************)
(* C5. Exhausted retry is fatal: once get_sbuf has given up, no further    *)
(* page is acquired or submitted and run() ends with the error.            *)
(* Stated as the claim; the code does not satisfy it.                      *)
(***************************************************************************)
Cex_C5_GiveUpStopsDispatch ==
    [][GaveUp => (submitted' = submitted /\ alloc_calls' = alloc_calls)]_vars

(***************************************************************************)
(* C6. Retry count: get_sbuf gives up at a position only after             *)
(* max_bad_alloc_errors + 1 calls of sbuf_alloc there (so that up to       *)
(* max_bad_alloc_errors failures in a row can still be followed by a       *)
(* success).  Stated as the claim; the code does not satisfy it.           *)
(***************************************************************************)
Cex_C6_RetryCount ==
    \A i \in 1..Len(xreport) : \A b \in 0..MaxBlock :
        (xreport[i].name = TooManyName /\ xreport[i].pos0 = BlockPosStr(b))
            => alloc_calls[b] = config.max_bad_alloc_errors + 1

(***************************************************************************)
(* C7. Retry bound: sbuf_alloc is never called more than                   *)
(* max_bad_alloc_errors + 1 times at one position.                         *)
(***************************************************************************)
Thm_C7_RetryBound ==
    \A b \in 0..MaxBlock : alloc_calls[b] <= config.max_bad_alloc_errors + 1

Wit_C7_RetryBound ==
    /\ config.max_bad_alloc_errors = MaxBadAlloc
    /\ \E b \in 0..MaxBlock :
          /\ alloc_calls[b] = MaxBadAlloc
          /\ ReportedBlock(b)
    /\ \E b \in 0..MaxBlock : alloc_calls[b] = 1 /\ SubmittedBlock(b)

(***************************************************************************)
(* C8. Hash validity: while sha1g is live, the bytes fed to it are the     *)
(* logical pages of the submitted leaf work units, concatenated in         *)
(* submission order, and sha1_next is the sum of their page sizes.  The    *)
(* unit whose tp->push has not returned yet (the producer is inside push,  *)
(* possibly blocked on a full queue) counts as the last one submitted.     *)
(***************************************************************************)
RECURSIVE ConcatPages(_)
ConcatPages(sbufs) ==
    IF sbufs = << >> THEN << >>
    ELSE PageBytes(Head(sbufs)) \o ConcatPages(Tail(sbufs))

RECURSIVE SumPageSizes(_)
SumPageSizes(sbufs) ==
    IF sbufs = << >> THEN 0
    ELSE Head(sbufs).pagesize + SumPageSizes(Tail(sbufs))

\* the units handed to tp->push so far, the one being pushed included
Dispatched == IF pc \in {"push", "push_blocked"} THEN Append(submitted, sbufp) ELSE submitted

Thm_C8_HashValidity ==
    sha1g => /\ sha1_bytes = ConcatPages(Dispatched)
             /\ sha1_next = SumPageSizes(Dispatched)

Wit_C8_HashValidity ==
    /\ sha1g
    /\ pc = "done"
    /\ Len(submitted) = MaxPages
    /\ image_size % PageSize # 0

(***************************************************************************)
(* C9. Hash discard: after a run that samples, or starts at                *)
(* offset_start > 0, or leaves a page of the image unsubmitted (skipped    *)
(* or failed), the rolling hash has been discarded.                        *)
(* Stated as the claim; the code does not satisfy it.                      *)
(***************************************************************************)
SomePageNotSubmitted == \E b \in 0..(PagesOf(image_size) - 1) : ~SubmittedBlock(b)

\* in the contrapositive, for a hash that has consumed data: a hash still live when
\* dispatch is over belongs to a sequential run from offset 0 that submitted every page
Cex_C9_HashDiscard ==
    (DispatchOver /\ sha1g /\ sha1_next > 0)
        => (~sampling /\ config.opt_offset_start = 0 /\ ~SomePageNotSubmitted)

(***************************************************************************)
(* C10. Drain with deadline: when run() has returned, finalization has     *)
(* been performed: the source element has been written to the report.      *)
(* Stated as the claim; the code does not satisfy it.                      *)
(***************************************************************************)
Cex_C10_Finalization ==
    pc = "done" => \E i \in 1..Len(xreport) : xreport[i] = xml_push("source")

(***************************************************************************)
(* C11. Offset and page gates: in a sequential run without read failures   *)
(* the submitted leaf pages are exactly the image pages with page number   *)
(* >= page_start whose raw offset o has offset_start <= o and              *)
(* (offset_end = 0 or o < offset_end), and no page at or past a non-zero   *)
(* offset_end is read.  Stated as the claim; the code does not satisfy it. *)
(***************************************************************************)
\* the pages the claim says are submitted
PagesWithinGates ==
    {b \in 0..(PagesOf(image_size) - 1) :
        /\ b >= config.opt_page_start
        /\ config.opt_offset_start <= b * PageSize
        /\ (config.opt_offset_end = 0 \/ b * PageSize < config.opt_offset_end)}

\* the blocks a work unit has been submitted for
SubmittedBlocks == {b \in 0..MaxBlock : SubmittedBlock(b)}

Cex_C11_Gates ==
    (DispatchOver /\ ~sampling /\ NoReadFailures)
        => /\ SubmittedBlocks = PagesWithinGates
           /\ \A b \in 0..MaxBlock :
                (config.opt_offset_end # 0 /\ b * PageSize >= config.opt_offset_end)
                    => alloc_calls[b] = 0

(***************************************************************************)
(* C12. Sampling plan: when make_sorted_random_blocklist has returned, the *)
(* plan holds exactly ceil(f * max_blocks) distinct block indices, every   *)
(* one of them in [0, max_blocks).  Stated as the claim; the code does not *)
(* satisfy it.                                                             *)
(***************************************************************************)
\* make_sorted_random_blocklist has returned a plan
PlanBuilt == sampling /\ pc \notin {"run", "sample", "abort"}

\* ceil(f * max_blocks), f in hundredths
PlanSize == (max_blocks(image_size) * config.sampling_fraction + 99) \div 100

Cex_C12_SamplingPlan ==
    PlanBuilt
        => /\ Cardinality(blocks_to_sample) = PlanSize
           /\ \A b \in blocks_to_sample : 0 <= b /\ b < max_blocks(image_size)

(***************************************************************************)
(* C13. Sampling coverage: in a sampling run without gates and without     *)
(* read failures exactly one page is submitted at every block of the plan, *)
(* in ascending order, so the submitted leaf positions are as many as the  *)
(* plan has blocks; and the seen-set never holds more entries than the     *)
(* plan.  Stated as the claim; the code does not satisfy it.               *)
(***************************************************************************)
\* the offsets of the blocks of the plan, in ascending order
PlanOffsets ==
    [i \in 1..Cardinality(blocks_to_sample) |-> NthSmallest(blocks_to_sample, i) * PageSize]

Cex_C13_SamplingCoverage ==
    /\ PlanBuilt => Cardinality(seen_page_ids) <= Cardinality(blocks_to_sample)
    /\ (DispatchOver /\ sampling /\ NoGates /\ NoReadFailures)
          => /\ SubmittedOffsets = PlanOffsets
             /\ Cardinality({pos0_str(submitted[i].pos0) : i \in 1..Len(submitted)})
                    = Cardinality(blocks_to_sample)

(***************************************************************************)
(* C18. Seen-set maintenance: once a candidate page that passed the gates  *)
(* has been handled (submitted, or reported as failed), its Position       *)
(* string is in the seen-set; pages skipped by the gates are never in it.  *)
(* Stated as the claim; the code does not satisfy it.                      *)
(***************************************************************************)
\* the position strings of the pages the loop body has handled inside its gate
HandledPosStrs ==
    {pos0_str(submitted[i].pos0) : i \in 1..Len(submitted)}
        \cup {xreport[i].pos0 : i \in {j \in 1..Len(xreport) : xreport[j].op = "xmlout"
                                          /\ xreport[j].name \in {ReadErrorName, TooManyName}}}

\* the position strings of the leaf pages that do not pass the gates
GateSkippedPosStrs ==
    {BlockPosStr(b) : b \in {c \in 0..MaxBlock : ~passes_gates(config, seek_block(begin, c))}}

Cex_C18_SeenSet ==
    /\ HandledPosStrs \subseteq seen_page_ids
    /\ seen_page_ids \cap GateSkippedPosStrs = {}

(***************************************************************************)
(* C19. Progress rate: with opt_quiet false, after n submitted pages       *)
(* floor(n / opt_notify_rate) progress lines have been printed; with       *)
(* opt_quiet true none is ever printed.  Stated as the claim; the code     *)
(* does not satisfy it.                                                    *)
(***************************************************************************)
Cex_C19_ProgressRate ==
    IF config.opt_quiet
    THEN progress_lines = 0
    ELSE progress_lines = Len(submitted) \div config.opt_notify_rate

(***************************************************************************)
(* C20. Report nesting balance: when run() has returned or thrown, every   *)
(* report element Phase 1 pushed has been popped, and at no time have      *)
(* more elements been popped than pushed.  Stated as the claim; the code   *)
(* does not satisfy it.                                                    *)
(***************************************************************************)
\* pushes minus pops of the report sink so far
ReportDepth ==
    Cardinality({i \in 1..Len(xreport) : xreport[i].op = "push"})
        - Cardinality({i \in 1..Len(xreport) : xreport[i].op = "pop"})

Cex_C20_ReportBalance ==
    /\ ReportDepth >= 0
    /\ pc \in {"done", "abort"} => ReportDepth = 0

(***************************************************************************)
(* C17. Sampling passes: in a sampling run with sampling_passes = p the    *)
(* plan has been built, and replayed by the dispatch loop, p times when    *)
(* dispatch is over.  Stated as the claim; the code does not satisfy it.   *)
(***************************************************************************)
Cex_C17_SamplingPasses ==
    (DispatchOver /\ sampling) => plans_built = config.sampling_passes

(***************************************************************************)
(* Vocabulary of the properties of derived pages.                          *)
(***************************************************************************)
\* the segments of a position: those of its path, then its offset
Segments(pos0) == Append(pos0.path, ToString(pos0.offset))

\* s is a prefix of t and shorter than t
IsStrictPrefix(s, t) == Len(s) < Len(t) /\ SubSeq(t, 1, Len(s)) = s

\* the position of the page in which derived page k was found
ParentPos0(k) == unit_sbuf(derived[k].parent).pos0

\* the segments of a position that are tags
Tags(pos0) == {i \in 1..Len(pos0.path) : pos0.path[i] = "GZIP"}

(***************************************************************************)
(* C14. Recursion provenance: every derived page scan_gzip passes to       *)
(* recurse, for a signature at any offset pos >= 0 of its parent, has the  *)
(* parent's Position as a strict prefix of its own, with at least one tag  *)
(* segment more.  Stated as the claim; it fails for pos > 0.               *)
(***************************************************************************)
Cex_C14_ParentIsPrefix ==
    \A k \in 1..Len(derived) :
        /\ IsStrictPrefix(Segments(ParentPos0(k)), Segments(derived[k].sbuf.pos0))
        /\ Cardinality(Tags(derived[k].sbuf.pos0)) > Cardinality(Tags(ParentPos0(k)))

(***************************************************************************)
(* C14, amended. The Position of a derived page is the Position of the     *)
(* signature byte, which is the parent's Position with its offset advanced *)
(* by pos, followed by the tag GZIP and the offset 0: the parent's path is *)
(* kept, exactly one tag segment is added, and the parent's whole Position *)
(* is a strict prefix exactly when pos = 0.                                *)
(***************************************************************************)
Thm_C14_GzipProvenance ==
    \A k \in 1..Len(derived) :
        LET parent == ParentPos0(k)
            child == derived[k].sbuf.pos0
        IN  /\ Segments(child) =
                  parent.path \o << ToString(parent.offset + derived[k].pos), "GZIP", "0" >>
            /\ Cardinality(Tags(child)) = Cardinality(Tags(parent)) + 1
            /\ IsStrictPrefix(Segments(parent), Segments(child)) <=> derived[k].pos = 0

\* a gzip stream found past the start of its page, inside a page that was itself
\* found past the start of a leaf page that is not the first of the image
Wit_C14_GzipProvenance ==
    \E k \in 1..Len(derived) :
        /\ derived[k].pos > 0
        /\ derived[k].parent < 0
        /\ derived[-derived[k].parent].pos > 0
        /\ ParentPos0(-derived[k].parent).offset > 0

(***************************************************************************)
(* C15. Derived-page buffer lifetime: the byte region of a derived page is *)
(* released only after the scanners have completed on that page, so that   *)
(* it is never released while a scanner may still read it.  Stated as the  *)
(* claim; the code does not satisfy it.                                    *)
(***************************************************************************)
Cex_C15_BufferLifetime ==
    \A k \in 1..Len(derived) : derived[k].freed => derived[k].process_count = 1

(***************************************************************************)
(* C16. Recursive submission: the pool does not deadlock on a submit made  *)
(* from a worker, and every submitted unit, leaf or derived, is eventually *)
(* completed and run() returns.  Stated as the claim; the code does not    *)
(* satisfy it (it holds under SpecRNoFault).                               *)
(***************************************************************************)
\* the scanners have completed on every unit, and run() has returned
AllCompleted ==
    /\ pc = "done"
    /\ \A u \in 1..Len(submitted) : process_count[u] = 1
    /\ \A k \in 1..Len(derived) : derived[k].process_count = 1

Cex_C16_RecursiveSubmit == <>AllCompleted

====
